---- MODULE Spec2Model ----
(***************************************************************************)
(* Wigmore Hall ticket availability checker (src/app/index.js).            *)
(*                                                                         *)
(* The model follows the JavaScript run-to-completion semantics: one       *)
(* action is one synchronous segment of a callback, from the point where   *)
(* it is resumed to the next await on real I/O (axios.get, sendMail).      *)
(* Three callers start batches: the immediate run at start-up, the         *)
(* standard job and the high-priority job.  Each has at most one batch in  *)
(* flight in the model.                                                    *)
(*                                                                         *)
(* Time is counted in ticks since the epoch (UTC); a calendar day has      *)
(* TicksPerDay ticks.  A date string YYYY-MM-DD is its day number.         *)
(***************************************************************************)
EXTENDS Integers, Sequences, FiniteSets, TLC

\* ------------------------------------------------------------------ bounds
\* concerts in concerts.json
NumItems == 2
\* concerts in concerts.json where the order of a batch is examined
SortItems == 3
\* resolution of the clock: ticks in one calendar day
TicksPerDay == 2
\* the clock of a run advances at most this many ticks
MaxTicks == 1
\* batches the two timers start in a run in which batches may overlap
MaxBatches == 1
\* batches the two timers start in a run in which batches follow one another
MaxSeqBatches == 2
\* date strings range over the days 0..MaxDay
MaxDay == 6

\* --------------------------------------------------------- values of fields
\* concert.date absent (undefined, null or ""): falsy in "if (!dateStr)"
NoDate == -1
\* concert.date present but not a parseable date: new Date(..) is Invalid Date
BadDate == -2
\* concert.lastChecked: null
Null == -1
\* concert.lastChecked missing from the record in the file (undefined)
Absent == -2
\* the time value of an Invalid Date
NaN == -1000000

\* the "Example Concert" written when concerts.json does not exist
DefaultId == 0
\* "2025-05-01" as a day number of the model
DefaultDay == 1

Runners == {"startup", "standard", "priority"}
Ids == 0..NumItems
\* offsets of the host's time zone from UTC: up to half a day either way
TzOffsets == (-(TicksPerDay \div 2))..(TicksPerDay \div 2)

\* ------------------------------------------------------------ Date arithmetic
\* new Date("YYYY-MM-DD").getTime(): a date-only string is midnight UTC
ParseDate(dateStr) == IF dateStr = BadDate THEN NaN ELSE dateStr * TicksPerDay

\* today.setHours(0, 0, 0, 0): midnight of the host's local day, as a UTC time
LocalMidnight(t, offset) == (((t + offset) \div TicksPerDay) * TicksPerDay) - offset

\* the host's local calendar day at time t
LocalDay(t, offset) == (t + offset) \div TicksPerDay

\* Math.ceil(x / (1000 * 60 * 60 * 24))
CeilDays(x) == -((-x) \div TicksPerDay)

\* concertHasPassed(dateStr), evaluated at time t on a host at the given offset
concertHasPassed(dateStr, t, offset) ==
    IF dateStr = NoDate THEN FALSE
    ELSE LET concertDate == ParseDate(dateStr)
             today == LocalMidnight(t, offset)
         IN  IF concertDate = NaN THEN FALSE ELSE concertDate < today

\* getCheckPriority(dateStr), evaluated at time t
getCheckPriority(dateStr, t) ==
    IF dateStr = NoDate THEN "normal"
    ELSE LET concertDate == ParseDate(dateStr)
         IN  IF concertDate = NaN THEN "normal"
             ELSE LET daysUntilConcert == CeilDays(concertDate - t)
                  IN  IF daysUntilConcert <= 3 THEN "high"
                      ELSE IF daysUntilConcert <= 7 THEN "medium"
                      ELSE "normal"

\* ------------------------------------------------------------ the store
\* the comparator of activeConcerts.sort; a NaN result counts as 0
SortCompare(a, b) ==
    IF a.date = NoDate /\ b.date = NoDate THEN 0
    ELSE IF a.date = NoDate THEN 1
    ELSE IF b.date = NoDate THEN -1
    ELSE IF ParseDate(a.date) = NaN \/ ParseDate(b.date) = NaN THEN 0
    ELSE ParseDate(a.date) - ParseDate(b.date)

\* the positions 1..Len(list) of the concerts that pass the test, in list order
RECURSIVE FilterIdx(_, _, _, _)
FilterIdx(list, k, t, offset) ==
    IF k > Len(list) THEN <<>>
    ELSE (IF concertHasPassed(list[k].date, t, offset) THEN <<>> ELSE <<k>>)
         \o FilterIdx(list, k + 1, t, offset)

\* Array.prototype.sort as Node's V8 runs it on a short array (fewer than 32
\* elements): the leading run is found, reversed when it descends strictly,
\* and every later element is put in place by binary insertion.  s is a
\* sequence of positions in list.
RECURSIVE RunLength(_, _, _, _)
RunLength(list, s, n, descending) ==
    IF n >= Len(s) THEN n
    ELSE LET order == SortCompare(list[s[n + 1]], list[s[n]])
         IN  IF (descending /\ order < 0) \/ (~descending /\ order >= 0)
             THEN RunLength(list, s, n + 1, descending)
             ELSE n

Reverse(s) == [k \in 1..Len(s) |-> s[Len(s) + 1 - k]]

\* the place (1..Len(acc)+1) binary insertion finds for pivot in acc
RECURSIVE InsertAt(_, _, _, _, _)
InsertAt(list, acc, pivot, left, right) ==
    IF left >= right THEN left
    ELSE LET mid == left + ((right - left) \div 2)
         IN  IF SortCompare(list[pivot], list[acc[mid]]) < 0
             THEN InsertAt(list, acc, pivot, left, mid)
             ELSE InsertAt(list, acc, pivot, mid + 1, right)

RECURSIVE InsertRest(_, _, _)
InsertRest(list, acc, rest) ==
    IF rest = <<>> THEN acc
    ELSE LET at == InsertAt(list, acc, Head(rest), 1, Len(acc) + 1)
         IN  InsertRest(list,
                        SubSeq(acc, 1, at - 1) \o <<Head(rest)>> \o SubSeq(acc, at, Len(acc)),
                        Tail(rest))

SortIdx(list, s) ==
    IF Len(s) < 2 THEN s
    ELSE LET descending == SortCompare(list[s[2]], list[s[1]]) < 0
             n == RunLength(list, s, 2, descending)
             run == IF descending THEN Reverse(SubSeq(s, 1, n)) ELSE SubSeq(s, 1, n)
         IN  InsertRest(list, run, SubSeq(s, n + 1, Len(s)))

\* filterAndPrioritizeConcerts(allConcerts): the positions of the active
\* concerts in the order in which the batch checks them
filterAndPrioritizeConcerts(list, t, offset) ==
    SortIdx(list, FilterIdx(list, 1, t, offset))

\* the filter of the high-priority job
RECURSIVE UrgentIdx(_, _, _, _)
UrgentIdx(list, k, t, offset) ==
    IF k > Len(list) THEN <<>>
    ELSE (IF /\ list[k].date # NoDate
             /\ getCheckPriority(list[k].date, t) = "high"
             /\ ~concertHasPassed(list[k].date, t, offset)
          THEN <<k>> ELSE <<>>)
         \o UrgentIdx(list, k + 1, t, offset)

urgentConcerts(list, t, offset) == UrgentIdx(list, 1, t, offset)

\* defaultConcerts of loadConcertsConfig
defaultConcerts ==
    << [id |-> DefaultId, date |-> DefaultDay, lastChecked |-> Null,
        wasAvailable |-> FALSE] >>

\* concert.lastChecked = concert.lastChecked || null, and the same for
\* wasAvailable (a boolean in the model)
Normalise(concert) ==
    [concert EXCEPT !.lastChecked = IF @ = Absent THEN Null ELSE @]

\* fs.writeFileSync(concertsConfigPath, ..) on file f: the file holds the
\* list, or the call throws (the path cannot be written) and f is as it was
WriteFile(f, concerts) ==
    IF f.writable THEN [f EXCEPT !.exists = TRUE, !.valid = TRUE, !.items = concerts]
    ELSE f

\* what loadConcertsConfig returns for file f.  A file that does not exist is
\* written first (line 47), inside the try: when that write throws, the catch
\* of lines 68-71 returns [], as it does when the file cannot be read or parsed
LoadList(f) ==
    IF ~f.exists THEN (IF f.writable THEN defaultConcerts ELSE <<>>)
    ELSE IF ~f.valid THEN <<>>
    ELSE [k \in 1..Len(f.items) |-> Normalise(f.items[k])]

\* the file after loadConcertsConfig: created when it did not exist
LoadFile(f) == IF ~f.exists THEN WriteFile(f, defaultConcerts) ELSE f

\* the file after saveConcertsConfig(concerts): a write that throws is caught
\* and logged
SaveFile(f, concerts) == WriteFile(f, concerts)

\* ------------------------------------------------------------ the state
VARIABLES
    store,              \* concerts.json: [exists, valid, items, writable]
    concertsToMonitor,  \* the runner whose list the module-level variable holds
    pc,                 \* where each runner's callback stands
    lists,              \* the array each runner's batch loaded
    todo,               \* activeConcerts / urgentConcerts: positions in lists[r]
    pos,                \* the position in todo[r] of the concert being checked
    now,                \* the clock (UTC ticks)
    tz,                 \* the host's offset from UTC
    page,               \* per concert: the page shows a "Book now" booking link
    ticks,              \* ticks elapsed since the process started
    started,            \* batches the timers have started
    io,                 \* history: per runner, the calls of loadConcertsConfig and
                        \* of saveConcertsConfig its latest batch has made
    results,            \* history: per runner, one record per check of its batch
    log,                \* history: per concert, what the checks of it did, in order
    edgeSent            \* history: per concert, notifications sent since its page
                        \* last became available

vars == <<store, concertsToMonitor, pc, lists, todo, pos, now, tz, page, ticks,
          started, io, results, log, edgeSent>>

\* where a runner's callback goes when its batch is over
Rest(r) == IF r = "startup" THEN "done" ELSE "idle"

InFlight(r) == pc[r] \in {"get", "send"}

\* line 156 without the test of wasAvailable
shouldNotifyAlways(ticketsAvailable, wasAvailable) == ticketsAvailable

\* line 156: send a notification?
shouldNotify(ticketsAvailable, wasAvailable) == ticketsAvailable /\ ~wasAvailable

\* lines 153-161 without the else branch of lines 159-161
afterFetchKeeps(concert, ticketsAvailable, t) == [concert EXCEPT !.lastChecked = t]

\* lines 153-161 with wasAvailable assigned what the fetch found, before the
\* await of line 157
afterFetchMarksFirst(concert, ticketsAvailable, t) ==
    [concert EXCEPT !.lastChecked = t, !.wasAvailable = ticketsAvailable]

\* lines 153-161 for a fetched and parsed page, up to the await of line 157
afterFetch(concert, ticketsAvailable, t) ==
    LET checked == [concert EXCEPT !.lastChecked = t]
    IN  IF shouldNotify(ticketsAvailable, concert.wasAvailable) THEN checked
        ELSE IF ~ticketsAvailable THEN [checked EXCEPT !.wasAvailable = FALSE]
        ELSE checked

\* line 158 left out
afterNotifyForgets(concert) == concert

\* line 158, after sendEmailNotification has returned
afterNotify(concert) == [concert EXCEPT !.wasAvailable = TRUE]

\* a catch that marks the concert sold out
afterErrorSoldOut(concert) == [concert EXCEPT !.wasAvailable = FALSE]

\* the catch of lines 164-167: the concert is left as it was
afterError(concert) == concert

\* a save of the concerts the batch has checked, the others left out
savedListActive(r, ls, global) == [k \in 1..Len(todo[r]) |-> ls[r][todo[r][k]]]

\* the list a batch saves at its end: checkAllConcerts saves the module-level
\* concertsToMonitor (line 244), the high-priority job its own array (line 287)
savedList(r, ls, global) == IF r = "priority" THEN ls["priority"] ELSE ls[global]

\* a batch starts: the list is loaded and the concerts to check are chosen
Begin(r, active) ==
    /\ lists' = [lists EXCEPT ![r] = LoadList(store)]
    /\ store' = LoadFile(store)
    /\ todo' = [todo EXCEPT ![r] = active]
    /\ results' = [results EXCEPT ![r] = <<>>]
    /\ io' = [io EXCEPT ![r] = [loads |-> 1, saves |-> 0]]
    /\ IF active = <<>>
       THEN /\ pc' = [pc EXCEPT ![r] = Rest(r)]
            /\ pos' = [pos EXCEPT ![r] = 0]
       ELSE /\ pc' = [pc EXCEPT ![r] = "get"]
            /\ pos' = [pos EXCEPT ![r] = 1]
    /\ UNCHANGED <<now, tz, page, ticks, log, edgeSent>>

\* checkAllConcerts up to its first await (or its early return)
checkAllConcerts(r) ==
    /\ concertsToMonitor' = r
    /\ Begin(r, filterAndPrioritizeConcerts(LoadList(store), now, tz))

\* module load (line 122) and scheduleChecks with its immediate run (line 303)
Startup ==
    /\ pc["startup"] = "init"
    /\ checkAllConcerts("startup")
    /\ UNCHANGED started

\* the standard job fires, the limit-th time at most
StartStandard(limit) ==
    /\ pc["startup"] # "init"
    /\ pc["standard"] = "idle"
    /\ started < limit
    /\ started' = started + 1
    /\ checkAllConcerts("standard")

\* the high-priority job fires
StartPriority(limit) ==
    /\ pc["startup"] # "init"
    /\ pc["priority"] = "idle"
    /\ started < limit
    /\ started' = started + 1
    /\ UNCHANGED concertsToMonitor
    /\ Begin("priority", urgentConcerts(LoadList(store), now, tz))

\* a loop that the first check to return brings to an end, nothing being saved
AdvanceAborts(r, ls) ==
    /\ pc' = [pc EXCEPT ![r] = Rest(r)]
    /\ UNCHANGED <<store, pos, io>>

\* checkTicketAvailability has returned for the concert at pos[r]: the loop
\* goes on to the next concert, or the batch saves and ends
Advance(r, ls) ==
    IF pos[r] < Len(todo[r])
    THEN /\ pos' = [pos EXCEPT ![r] = @ + 1]
         /\ pc' = [pc EXCEPT ![r] = "get"]
         /\ UNCHANGED <<store, io>>
    ELSE /\ store' = SaveFile(store, savedList(r, ls, concertsToMonitor))
         /\ io' = [io EXCEPT ![r].saves = @ + 1]
         /\ pc' = [pc EXCEPT ![r] = Rest(r)]
         /\ UNCHANGED pos

\* the history record of a check: the concert, its wasAvailable when the check
\* began, what the fetch gave, when, the calls of sendEmailNotification the
\* check made and what became of the notification
Result(concert, outcome, t, delivery) ==
    [id |-> concert.id, waBefore |-> concert.wasAvailable, outcome |-> outcome,
     at |-> t, sends |-> IF delivery = "none" THEN 0 ELSE 1, delivery |-> delivery]

\* axios.get throws, or cheerio cannot load the response
GetFails(r) ==
    /\ pc[r] = "get"
    /\ LET k == todo[r][pos[r]]
           concert == lists[r][k]
           ls == [lists EXCEPT ![r][k] = afterError(concert)]
       IN  /\ lists' = ls
           /\ results' = [results EXCEPT ![r] =
                             Append(@, Result(concert, "error", now, "none"))]
           /\ log' = [log EXCEPT ![concert.id] = Append(@, "error")]
           /\ Advance(r, ls)
    /\ UNCHANGED <<concertsToMonitor, todo, now, tz, page, ticks, started, edgeSent>>

\* axios.get returns the page and it is classified
GetReturns(r) ==
    /\ pc[r] = "get"
    /\ LET k == todo[r][pos[r]]
           concert == lists[r][k]
           ticketsAvailable == page[concert.id]
           notify == shouldNotify(ticketsAvailable, concert.wasAvailable)
           ls == [lists EXCEPT ![r][k] = afterFetch(concert, ticketsAvailable, now)]
           outcome == IF ticketsAvailable THEN "available" ELSE "soldout"
       IN  /\ lists' = ls
           /\ results' = [results EXCEPT ![r] =
                 Append(@, Result(concert, outcome, now,
                                  IF notify THEN "pending" ELSE "none"))]
           /\ log' = [log EXCEPT ![concert.id] =
                 Append(@, IF notify THEN "notified" ELSE outcome)]
           /\ IF notify
              THEN /\ pc' = [pc EXCEPT ![r] = "send"]
                   /\ edgeSent' = [edgeSent EXCEPT ![concert.id] = @ + 1]
                   /\ UNCHANGED <<store, pos, io>>
              ELSE /\ Advance(r, ls)
                   /\ UNCHANGED edgeSent
    /\ UNCHANGED <<concertsToMonitor, todo, now, tz, page, ticks, started>>

\* transporter.sendMail resolves (ok) or rejects: sendEmailNotification
\* catches the rejection and returns either way
SendReturns(r, ok) ==
    /\ pc[r] = "send"
    /\ LET k == todo[r][pos[r]]
           concert == lists[r][k]
           ls == [lists EXCEPT ![r][k] = afterNotify(concert)]
           n == Len(results[r])
           delivery == IF ok THEN "delivered" ELSE "failed"
       IN  /\ lists' = ls
           /\ results' = [results EXCEPT ![r][n].delivery = delivery]
           /\ log' = [log EXCEPT ![concert.id] = Append(@, delivery)]
           /\ Advance(r, ls)
    /\ UNCHANGED <<concertsToMonitor, todo, now, tz, page, ticks, started, edgeSent>>

\* time passes
Tick ==
    /\ ticks < MaxTicks
    /\ ticks' = ticks + 1
    /\ now' = now + 1
    /\ UNCHANGED <<store, concertsToMonitor, pc, lists, todo, pos, tz, page,
                   started, io, results, log, edgeSent>>

\* the box office changes a concert's page.  Only a fetch reads the page, so
\* a change is taken while a request for the page is out: a change at any
\* other time is seen by nothing before the next request for it
PageChanges(id) ==
    /\ \E r \in Runners : pc[r] = "get" /\ lists[r][todo[r][pos[r]]].id = id
    /\ page' = [page EXCEPT ![id] = ~@]
    /\ edgeSent' = [edgeSent EXCEPT ![id] = IF page[id] THEN @ ELSE 0]
    /\ UNCHANGED <<store, concertsToMonitor, pc, lists, todo, pos, now, tz,
                   ticks, started, io, results, log>>

\* ------------------------------------------------------------ specifications
\* a concert a user has put into concerts.json
Concert(id, date, wasAvailable) ==
    [id |-> id, date |-> date, lastChecked |-> Null, wasAvailable |-> wasAvailable]

\* a file with the concerts 1..NumItems, dated and marked as given
FileOf(dates, was) ==
    [exists |-> TRUE, valid |-> TRUE, writable |-> TRUE,
     items |-> [k \in 1..NumItems |-> Concert(k, dates[k], was[k])]]

\* the histories start from what the file says of each concert
InitProcess ==
    /\ concertsToMonitor = "startup"
    /\ pc = [r \in Runners |-> IF r = "startup" THEN "init" ELSE "idle"]
    /\ lists = [r \in Runners |-> <<>>]
    /\ todo = [r \in Runners |-> <<>>]
    /\ pos = [r \in Runners |-> 0]
    /\ ticks = 0
    /\ started = 0
    /\ io = [r \in Runners |-> [loads |-> 0, saves |-> 0]]
    /\ results = [r \in Runners |-> <<>>]
    /\ edgeSent = [id \in Ids |-> 0]

StartNow == 2 * TicksPerDay
StartDay == StartNow \div TicksPerDay

\* dates of the concerts of a run: none, yesterday, tomorrow
RunDates == {NoDate, StartDay - 1, StartDay + 1}

Init ==
    /\ InitProcess
    /\ \E dates \in [1..NumItems -> RunDates], was \in [1..NumItems -> BOOLEAN] :
          /\ store = FileOf(dates, was)
          /\ log = [id \in Ids |-> IF id \in 1..NumItems /\ was[id]
                                   THEN <<"stored true">> ELSE <<"stored false">>]
    /\ now = StartNow
    /\ tz = 0
    /\ page \in [Ids -> BOOLEAN]
    /\ page[DefaultId] = FALSE

\* the box office, the network and the clock
Environment ==
    \/ \E r \in Runners : GetFails(r)
    \/ \E r \in Runners : GetReturns(r)
    \/ \E r \in Runners, ok \in BOOLEAN : SendReturns(r, ok)
    \/ Tick
    \/ \E id \in 1..NumItems : PageChanges(id)

\* batches may overlap: a timer fires while another batch awaits its I/O
Next ==
    \/ Startup
    \/ StartStandard(MaxBatches)
    \/ StartPriority(MaxBatches)
    \/ Environment

Spec == Init /\ [][Next]_vars

\* no batch is in flight
Quiet == \A r \in Runners : ~InFlight(r)

\* batches follow one another: a timer fires only when no batch is in flight
NextSeq ==
    \/ Startup
    \/ Quiet /\ StartStandard(MaxSeqBatches)
    \/ Quiet /\ StartPriority(MaxSeqBatches)
    \/ Environment

SpecSeq == Init /\ [][NextSeq]_vars

\* ---- the date tests alone: batches start, at any time of day, on any host
AllDates == {NoDate, BadDate} \cup (0..MaxDay)

InitDate ==
    /\ InitProcess
    /\ \E dates \in [1..NumItems -> AllDates] :
          store = FileOf(dates, [k \in 1..NumItems |-> FALSE])
    /\ log = [id \in Ids |-> <<"stored false">>]
    /\ now \in TicksPerDay..((3 * TicksPerDay) - 1)
    /\ tz \in TzOffsets
    /\ page = [id \in Ids |-> FALSE]

NextDate ==
    \/ Startup
    \/ StartStandard(MaxBatches)
    \/ StartPriority(MaxBatches)

SpecDate == InitDate /\ [][NextDate]_vars

\* ---- the file as the process may find it: missing, unreadable or not JSON,
\* or a list of zero to NumItems concerts with or without a lastChecked, in a
\* directory that can or cannot be written
Stored(id, date, checked) ==
    [id |-> id, date |-> date, lastChecked |-> checked, wasAvailable |-> FALSE]

StoredLists ==
    UNION { { [k \in 1..n |-> Stored(k, dates[k], checked[k])] :
                dates \in [1..n -> RunDates], checked \in [1..n -> {Absent, Null}] } :
            n \in 0..NumItems }

StoreFiles ==
    { [exists |-> FALSE, valid |-> FALSE, writable |-> w, items |-> <<>>] :
        w \in BOOLEAN }
    \cup { [exists |-> TRUE, valid |-> FALSE, writable |-> w, items |-> <<>>] :
        w \in BOOLEAN }
    \cup { [exists |-> TRUE, valid |-> TRUE, writable |-> w, items |-> items] :
        w \in BOOLEAN, items \in StoredLists }

InitStore ==
    /\ InitProcess
    /\ store \in StoreFiles
    /\ log = [id \in Ids |-> <<"stored false">>]
    /\ now = StartNow
    /\ tz = 0
    /\ page \in [Ids -> BOOLEAN]
    /\ page[DefaultId] = FALSE

SpecStore == InitStore /\ [][Next]_vars

\* ---- the order of a batch alone: checkAllConcerts starts on a file of
\* SortItems concerts with any dates
InitSort ==
    /\ InitProcess
    /\ \E dates \in [1..SortItems -> AllDates] :
          store = [exists |-> TRUE, valid |-> TRUE, writable |-> TRUE,
                   items |-> [k \in 1..SortItems |-> Concert(k, dates[k], FALSE)]]
    /\ log = [id \in Ids |-> <<"stored false">>]
    /\ now = StartNow
    /\ tz = 0
    /\ page = [id \in Ids |-> FALSE]

NextSort ==
    \/ Startup
    \/ StartStandard(MaxBatches)

SpecSort == InitSort /\ [][NextSort]_vars

\* ------------------------------------------------------------ the claims
\* the checks a runner's batch has made so far
Checks(r) == 1..Len(results[r])
\* the concert the k-th check of r's batch was of, as it is now
Checked(r, k) == lists[r][todo[r][k]]
\* checkTicketAvailability has returned
Returned(rec) == rec.delivery # "pending"

IsProbe(e) == e \in {"stored true", "stored false", "notified", "available", "soldout"}
\* what the fetches of a concert found, in order, failed fetches left out,
\* headed by what the file said at the start
Probes(l) == SelectSeq(l, IsProbe)
FoundAvailable(e) == e \in {"stored true", "notified", "available"}
IsDay(date) == date >= 0
Range(s) == {s[k] : k \in 1..Len(s)}

\* C1: a check that begins with wasAvailable = false and finds the page
\* available sends exactly one notification and returns with wasAvailable true
C1_NotifiesOnceOnEdge ==
    \A r \in Runners : \A k \in Checks(r) :
        LET rec == results[r][k]
        IN  (Returned(rec) /\ ~rec.waBefore /\ rec.outcome = "available")
                => (rec.sends = 1 /\ Checked(r, k).wasAvailable)

C1_Witness ==
    \E r \in Runners : \E k \in Checks(r) :
        /\ Returned(results[r][k])
        /\ ~results[r][k].waBefore
        /\ results[r][k].outcome = "available"

\* C2: while a concert's page stays available, at most one notification is
\* sent for it, whatever batches run and however they interleave
C2_OneNotificationPerEdge == \A id \in Ids : edgeSent[id] <= 1

\* C3: a check that begins with wasAvailable = true and finds the page
\* available sends nothing and leaves wasAvailable true; and when batches
\* follow one another, a fetch that finds the page available right after a
\* fetch that found it available (or after the file said so) sends nothing
C3_NoRepeatNotification ==
    /\ \A r \in Runners : \A k \in Checks(r) :
          LET rec == results[r][k]
          IN  (rec.waBefore /\ rec.outcome = "available")
                  => (rec.sends = 0 /\ Checked(r, k).wasAvailable)
    /\ \A id \in Ids :
          LET P == Probes(log[id])
          IN  \A p \in 2..Len(P) : FoundAvailable(P[p - 1]) => P[p] # "notified"

C3_Witness ==
    \E id \in Ids :
        Probes(log[id]) = <<"stored false", "notified", "available", "available">>

\* C4 as claimed: after a check whose fetch failed or found the page sold
\* out, wasAvailable is false and nothing was sent
C4_FailedOrSoldOutResets ==
    \A r \in Runners : \A k \in Checks(r) :
        results[r][k].outcome \in {"error", "soldout"}
            => (~Checked(r, k).wasAvailable /\ results[r][k].sends = 0)

\* C4 amended: after a check that found the page sold out wasAvailable is
\* false; after a check whose fetch failed it is what it was before; nothing
\* is sent in either
C4_Amended ==
    \A r \in Runners : \A k \in Checks(r) :
        LET rec == results[r][k]
        IN  /\ rec.outcome = "soldout"
                => (~Checked(r, k).wasAvailable /\ rec.sends = 0)
            /\ rec.outcome = "error"
                => (Checked(r, k).wasAvailable = rec.waBefore /\ rec.sends = 0)

C4_Witness ==
    \E r \in Runners : \E k, m \in Checks(r) :
        /\ results[r][k].outcome = "error" /\ results[r][k].waBefore
        /\ results[r][m].outcome = "soldout" /\ results[r][m].waBefore

\* C5: a failed fetch leaves wasAvailable as it was, and the wasAvailable of
\* a concert of a batch in flight changes only in the step in which a check
\* of that concert whose fetch succeeded goes on
C5_FailedProbeKeepsState ==
    /\ [](\A r \in Runners : \A k \in Checks(r) :
             results[r][k].outcome = "error"
                 => Checked(r, k).wasAvailable = results[r][k].waBefore)
    /\ [][\A r \in Runners : \A k \in 1..Len(lists[r]) :
             (InFlight(r) /\ lists'[r][k].wasAvailable # lists[r][k].wasAvailable)
                 => /\ k = todo[r][pos[r]]
                    /\ results'[r][Len(results'[r])].outcome # "error"]_vars

C5_Witness ==
    \E r, q \in Runners : \E k \in Checks(r), m \in Checks(q) :
        /\ results[r][k].outcome = "error" /\ results[r][k].waBefore
        /\ results[q][m].outcome = "error" /\ ~results[q][m].waBefore

\* C6: after every check, failed ones too, lastChecked is the time of the check
C6_LastCheckedOnEveryProbe ==
    \A r \in Runners : \A k \in Checks(r) :
        Checked(r, k).lastChecked = results[r][k].at

\* C7: a notification whose delivery failed was sent once and the concert is
\* marked available all the same; the file says so once the batches are over,
\* and no notification is sent for the concert again until a fetch has found
\* its page sold out
C7_DeliveryFailureKeepsTransition ==
    /\ \A r \in Runners : \A k \in Checks(r) :
          results[r][k].delivery = "failed"
              => (results[r][k].sends = 1 /\ Checked(r, k).wasAvailable)
    /\ \A id \in 1..NumItems :
          LET l == log[id]
          IN  /\ (Quiet /\ l[Len(l)] = "failed") => store.items[id].wasAvailable
              /\ \A p, q \in 1..Len(l) :
                    (p < q /\ l[p] = "failed" /\ l[q] = "notified")
                        => \E m \in p..q : l[m] = "soldout"

\* C8: a check that begins with wasAvailable = true and finds the page sold
\* out sends nothing and returns with wasAvailable false; the next fetch of
\* the concert that finds the page available notifies, so that available,
\* sold out, available from a sold-out start gives two notifications
C8_SoldOutRearms ==
    /\ \A r \in Runners : \A k \in Checks(r) :
          LET rec == results[r][k]
          IN  (rec.waBefore /\ rec.outcome = "soldout")
                  => (rec.sends = 0 /\ ~Checked(r, k).wasAvailable)
    /\ \A id \in Ids :
          LET P == Probes(log[id])
          IN  /\ \A p \in 2..Len(P) :
                    (~FoundAvailable(P[p - 1]) /\ FoundAvailable(P[p]))
                        => P[p] = "notified"
              /\ (/\ Len(P) = 4
                  /\ P[1] = "stored false" /\ FoundAvailable(P[2])
                  /\ P[3] = "soldout" /\ FoundAvailable(P[4]))
                    => Cardinality({p \in 1..4 : P[p] = "notified"}) = 2

\* C9: a batch of checkAllConcerts leaves a concert out exactly when its date
\* is a day before the host's calendar day
C9_LeftOutIffBeforeToday ==
    \A r \in {"startup", "standard"} : \A k \in 1..Len(lists[r]) :
        (k \notin Range(todo[r]))
            <=> (IsDay(lists[r][k].date) /\ lists[r][k].date < LocalDay(now, tz))

\* C10: the high-priority batch checks exactly the concerts dated from the
\* host's calendar day to three days after it
C10_UrgentIffWithinThreeDays ==
    \A k \in 1..Len(lists["priority"]) :
        (k \in Range(todo["priority"]))
            <=> /\ IsDay(lists["priority"][k].date)
                /\ lists["priority"][k].date >= LocalDay(now, tz)
                /\ lists["priority"][k].date <= LocalDay(now, tz) + 3

\* the step in which the batch of r, with concerts to check, comes to its end
Ends(r) == InFlight(r) /\ pc'[r] = Rest(r)
\* the step in which a batch starts: every start loads the file
Starts == (pc["startup"] = "init" /\ pc'["startup"] # "init") \/ started' # started

\* C11: batches overlap on one file, each on the copy it loaded, and the last
\* write wins: when the last of the batches in flight ends, the file holds
\* exactly the list of that batch, the one that saved last
C11_LastWriteWins ==
    [][\A r \in Runners :
          (Ends(r) /\ Quiet') => store'.items = lists'[r]]_vars

\* the runner has started a batch
HasRun(r) == io[r].loads > 0

\* C12: every batch loads the file once, at its start, and saves it exactly
\* once, at its end: a batch in flight has not saved, a batch that is over
\* has saved once, a batch that found no concert to check too
C12_LoadOnceSaveOnce ==
    \A r \in Runners :
        HasRun(r) => /\ io[r].loads = 1
                     /\ io[r].saves = IF InFlight(r) THEN 0 ELSE 1

\* the file holds a list with the default concert alone
HoldsDefault(f) == f.exists /\ f.valid /\ f.items = defaultConcerts

\* C13: loading a file that cannot be read or parsed gives an empty or a
\* default list, and whenever a load gives the empty list, a default concert
\* is written to the file (where the file can be written)
C13_EmptyLoadSeedsDefault ==
    [][Starts =>
          /\ (store.exists /\ ~store.valid)
                => LoadList(store) \in {<<>>, defaultConcerts}
          /\ (store.writable /\ LoadList(store) = <<>>)
                => HoldsDefault(store')]_vars

\* C14: loading when there is no file gives the list of the default concert
\* alone, never the empty list, and writes it to the file (where the file can
\* be written); and a file that holds concerts goes on holding concerts, so
\* that the batches after it start from a list that is not empty
C14_MissingStoreSeedsDefault ==
    [][/\ (Starts /\ ~store.exists) =>
             /\ LoadList(store) = defaultConcerts
             /\ store.writable => HoldsDefault(store')
       /\ (store.exists /\ store.valid /\ store.items # <<>>)
             => (store'.exists /\ store'.valid /\ store'.items # <<>>)]_vars

\* the checks of r's batch that have begun: those on record and the one whose
\* fetch is out
Begun(r) == Len(results[r]) + (IF pc[r] = "get" THEN 1 ELSE 0)

\* C15: a failed fetch or a failed delivery does not end the batch.  The
\* checks of a batch are of the batch's concerts in batch order, each concert
\* once; a check begins only when the one before it has returned; a batch in
\* flight has one check out; and a batch with concerts to check that is over
\* has checked them all and has saved the file
C15_FailureDoesNotAbortBatch ==
    \A r \in Runners :
        LET n == Len(results[r])
        IN  /\ \A j, k \in 1..Len(todo[r]) : j # k => todo[r][j] # todo[r][k]
            /\ n <= Len(todo[r])
            /\ \A k \in 1..n : results[r][k].id = Checked(r, k).id
            /\ \A k \in 1..(n - 1) : Returned(results[r][k])
            /\ InFlight(r) =>
                  /\ Begun(r) = pos[r]
                  /\ pc[r] = "get" <=> (n = 0 \/ Returned(results[r][n]))
            /\ (HasRun(r) /\ ~InFlight(r)) =>
                  /\ n = Len(todo[r])
                  /\ \A k \in 1..n : Returned(results[r][k])
                  /\ todo[r] # <<>> => io[r].saves = 1

C15_Witness ==
    \E r, q \in Runners :
        /\ ~InFlight(r) /\ ~InFlight(q)
        /\ Len(results[r]) = NumItems /\ results[r][1].outcome = "error"
        /\ Len(results[q]) = NumItems /\ results[q][1].delivery = "failed"
        /\ io[r].saves = 1 /\ io[q].saves = 1

\* C16: the concerts of a checkAllConcerts batch are checked in ascending
\* order of date, the concerts with no date after all dated ones, and concerts
\* with the same date, or both with none, in the order of the file; dates
\* d1 > d2 and no date, in that order in the file, are checked d2, d1, no date
C16_BatchOrder ==
    \A r \in {"startup", "standard"} :
        /\ \A i, j \in 1..Len(todo[r]) :
              LET a == lists[r][todo[r][i]]
                  b == lists[r][todo[r][j]]
              IN  i < j =>
                    /\ (IsDay(a.date) /\ IsDay(b.date)) => a.date <= b.date
                    /\ a.date = NoDate => ~IsDay(b.date)
                    /\ (a.date = b.date /\ a.date # BadDate) => todo[r][i] < todo[r][j]
        /\ (/\ Len(lists[r]) = 3 /\ Len(todo[r]) = 3
            /\ IsDay(lists[r][1].date) /\ IsDay(lists[r][2].date)
            /\ lists[r][1].date > lists[r][2].date
            /\ lists[r][3].date = NoDate)
              => todo[r] = <<2, 1, 3>>

\* the concert's date is a day before the host's calendar day
PastDated(concert) == IsDay(concert.date) /\ concert.date < LocalDay(now, tz)

\* C17: a past-dated concert keeps its last recorded state.  No step of a
\* batch in flight changes a past-dated concert of its list, so that the list
\* has it as it was loaded; and once a batch has loaded the file, and so after
\* the batch is over, the file has every past-dated concert of the batch at
\* the same position, with every field as loaded
C17_PastDatedRetained ==
    /\ [](\A r \in Runners : \A k \in 1..Len(lists[r]) :
             PastDated(lists[r][k])
                 => /\ store.exists /\ store.valid
                    /\ k <= Len(store.items)
                    /\ store.items[k] = lists[r][k])
    /\ [][\A r \in Runners : \A k \in 1..Len(lists[r]) :
             (InFlight(r) /\ PastDated(lists[r][k])) => lists'[r][k] = lists[r][k]]_vars

C17_Witness ==
    \E r \in {"standard", "priority"} : \E k \in 1..Len(lists[r]) :
        /\ HasRun(r) /\ ~InFlight(r) /\ io[r].saves = 1
        /\ PastDated(lists[r][k]) /\ lists[r][k].wasAvailable
        /\ \E j \in 1..Len(store.items) : store.items[j].lastChecked # Null

\* C18: what a checkAllConcerts batch saves at its end is the list that batch
\* loaded at its start, with the wasAvailable and lastChecked its own checks
\* gave it, whatever other runs have started in the meantime
C18_SavesOwnList ==
    [][\A r \in {"startup", "standard"} :
          Ends(r) => store'.items = lists'[r]]_vars

\* a call of sendEmailNotification for the concert has returned
Attempted(id) == \E p \in 1..Len(log[id]) : log[id][p] \in {"delivered", "failed"}

\* C19: from a file in which every concert has wasAvailable = false, a concert
\* that has wasAvailable = true, in the list of a batch or in the file, has
\* had a notification attempted for it; and the wasAvailable of a concert of a
\* batch in flight becomes true only in the step in which
\* sendEmailNotification returns to the check of that concert
C19_AvailableOnlyAfterNotify ==
    /\ []((\A id \in Ids : Head(log[id]) = "stored false") =>
            /\ \A r \in Runners : \A k \in 1..Len(lists[r]) :
                  lists[r][k].wasAvailable => Attempted(lists[r][k].id)
            /\ \A k \in 1..Len(store.items) :
                  store.items[k].wasAvailable => Attempted(store.items[k].id))
    /\ [][\A r \in Runners : \A k \in 1..Len(lists[r]) :
             (InFlight(r) /\ ~lists[r][k].wasAvailable /\ lists'[r][k].wasAvailable)
                 => /\ pc[r] = "send"
                    /\ k = todo[r][pos[r]]
                    /\ Returned(results'[r][pos[r]])]_vars

C19_Witness ==
    /\ \A id \in Ids : Head(log[id]) = "stored false"
    /\ \E k \in 1..Len(store.items) : store.items[k].wasAvailable
    /\ \E r \in Runners : \E k \in 1..Len(lists[r]) :
          InFlight(r) /\ lists[r][k].wasAvailable /\ ~store.items[k].wasAvailable

====
